---- MODULE Spec2Model ----
(***************************************************************************)
(* A model of the IIS timetable loader: src/main.py (the orchestrator) and *)
(* src/iis_etl/logic.py (the syncers, the schedule normaliser, the         *)
(* archive and the occupancy index), over the tables of                    *)
(* src/iis_etl/models.py.                                                  *)
(*                                                                         *)
(* Tables are sequences of rows in insertion order: a row's position is    *)
(* its autoincrement surrogate key.  NULL is the SQL null / Python None.   *)
(***************************************************************************)
EXTENDS Integers, Sequences, FiniteSets, TLC

VARIABLES
    \* ---- the database, as the run's session sees it (uncommitted writes included)
    student_groups,         \* table student_groups (models.py StudentGroup)
    employees,              \* table employees: id -> url_id (models.py Employee)
    schedule_json_storage,  \* table schedule_json_storage (the archive)
    schedule_events,        \* table schedule_events
    committed,              \* the four tables as of the last COMMIT
    \* ---- the run (main.py) and its session
    pc,                     \* where main() stands
    run,                    \* which invocation of the job this is
    clock,                  \* the wall clock read by datetime.now() / now()
    group_names,            \* sync_all_group_schedules: the names it selected
    emp_list,               \* sync_all_employee_schedules: the rows it selected
    idx,                    \* the loop index of the running phase-2 loop
    txn,                    \* the session has a transaction in progress
    expired,                \* the ORM instances of the session are expired
    exc,                    \* the exception in flight in main(), or "none"
    \* ---- what the run did (observations, never read by the program)
    api_groups,             \* the snapshot the last sync_groups fetched
    pre_groups,             \* student_groups before the last sync_groups
    fetched,                \* schedule fetches of this run, in order
    attempt,                \* the last phase-2 attempt: entity, outcome, tables before
    log,                    \* the levels this run logged at
    rebuilds,               \* calls of rebuild_occupancy_index in this run
    phase1_ok,              \* this run logged "phase 1 completed"
    client_closed,          \* client.close() was awaited
    exit_status,            \* the process's exit status, NULL while running
    steps,                  \* the phase-1 syncers this run called, with how each ended
    \* ---- sync_groups with its timestamps (SpecVersions)
    valid_from,             \* student_groups.valid_from, row by row
    \* ---- one document through the normaliser (SpecDocs)
    document,               \* the document _process_schedule_json is called with
    \* ---- the reference tables and the index
    auditories,             \* table auditories: id -> row (models.py Auditory)
    occupancy_index,        \* table occupancy_index, without its surrogate key
    \* ---- BsuirApiClient._get under concurrent callers (SpecClient)
    callers,                \* how many callers stand at each point of _get
    semaphore,              \* self.semaphore._value: the free permits
    last_response,          \* the last answered request and what its call did next
    \* ---- the reference syncers run twice on one snapshot (SpecRefs)
    faculties,              \* table faculties: id -> row (models.py Faculty)
    departments,            \* table departments: id -> row (models.py Department)
    specialities,           \* table specialities: id -> row (models.py Speciality)
    departments_employees,  \* table departments_employees: <<department_id, employee_id>>
    feeds,                  \* the snapshot of each endpoint, as the first pass fetched it
    ref_pass,               \* which pass over the snapshot this is
    after_first             \* the reference tables when the first pass had ended

dbvars == <<student_groups, employees, schedule_json_storage, schedule_events, committed>>
runvars == <<pc, run, group_names, emp_list, idx, txn, expired, exc>>
obsvars == <<fetched, attempt, log, rebuilds, phase1_ok, client_closed, exit_status>>
mainvars == <<dbvars, runvars, clock, api_groups, pre_groups, obsvars, steps>>

\* The variables of the specifications that leave main() aside.
clientvars == <<callers, semaphore, last_response>>
refvars == <<faculties, departments, specialities, departments_employees, feeds,
             ref_pass, after_first>>
nonclientvars == <<mainvars, valid_from, document, auditories, occupancy_index, refvars>>
restvars == <<valid_from, document, auditories, clientvars, refvars>>
labvars == <<restvars, occupancy_index>>
vars == <<mainvars, labvars>>

NULL == 0

\* ---------------------------------------------------------------- bounds
MaxFeedLen == 2       \* longest /student-groups snapshot explored in SpecGroups
MaxSyncs == 2         \* sync_groups runs explored in SpecGroups
MaxRunFeedLen == 2    \* most items the group and employee feeds of one run hold together
MaxRuns == 2          \* invocations of the job explored
MaxCarried == 2       \* most rows a run may leave for a further run to be explored
MaxStampedSyncs == 3  \* sync_groups runs explored in SpecVersions
MaxDelay == 1         \* most clock ticks between a transaction's start and a datetime.now()
MaxItems == 2         \* most lessons, and most exams, of a document in SpecDocs
MaxEvents == 2        \* most schedule_events rows in SpecIndex
MaxRebuilds == 2      \* rebuilds of the index explored in SpecIndex
NumCallers == 6       \* concurrent callers of _get in SpecClient

\* ------------------------------------------------------------ feed values
GroupIds == {1, 2}
GroupNames == {"g1", "g2"}
Courses == {1, 2}
SpecIds == {10, 20, 30}
Counts == {NULL, 25}

\* The ids in table specialities when sync_groups runs; 30 is never known.
KnownSpecialities == {10, 20}

\* One item of the /student-groups snapshot (the keys sync_groups reads).
GroupItems ==
    [id : GroupIds, name : GroupNames, course : Courses,
     specialityDepartmentEducationFormId : SpecIds, numberOfStudents : Counts]

SeqsUpTo(S, n) == UNION {[1..k -> S] : k \in 0..n}

\* ------------------------------------------------------------ sync_groups
RowOf(item) ==
    [id |-> item.id, name |-> item.name, course |-> item.course,
     specialty_id |-> item.specialityDepartmentEducationFormId,
     number_of_students |-> item.numberOfStudents, valid_to |-> NULL]

OpenRows(table, n) ==
    {i \in DOMAIN table : table[i].id = n /\ table[i].valid_to = NULL}

OpenIds(table) == {table[i].id : i \in {j \in DOMAIN table : table[j].valid_to = NULL}}

\* db_map = {g.id: g for g in open rows}: one open row per natural id.  The
\* SELECT has no ORDER BY, so with several open rows of one id any of them may
\* come last and stay in the dict.
DbMaps(table) ==
    {m \in [OpenIds(table) -> DOMAIN table] : \A n \in DOMAIN m : m[n] \in OpenRows(table, n)}

is_changed(current, item) ==
    \/ current.name # item.name
    \/ current.course # item.course
    \/ current.specialty_id # item.specialityDepartmentEducationFormId

\* One iteration of the loop over api_groups (logic.py 137-163).
SyncGroupItem(table, db_map, valid_spec_ids, item, now) ==
    IF item.specialityDepartmentEducationFormId \notin valid_spec_ids THEN table
    ELSE IF item.id \notin DOMAIN db_map THEN Append(table, RowOf(item))
    ELSE LET c == db_map[item.id] IN
         IF is_changed(table[c], item)
         THEN Append([table EXCEPT ![c].valid_to = now], RowOf(item))
         ELSE IF table[c].number_of_students # item.numberOfStudents
         THEN [table EXCEPT ![c].number_of_students = item.numberOfStudents]
         ELSE table

RECURSIVE SyncGroupItems(_, _, _, _, _)
SyncGroupItems(table, db_map, valid_spec_ids, items, now) ==
    IF items = <<>> THEN table
    ELSE SyncGroupItems(SyncGroupItem(table, db_map, valid_spec_ids, Head(items), now),
                        db_map, valid_spec_ids, Tail(items), now)

\* api_ids (logic.py 165): the natural ids of the valid feed items.
ApiIds(items, valid_spec_ids) ==
    {items[k].id : k \in {j \in DOMAIN items :
        items[j].specialityDepartmentEducationFormId \in valid_spec_ids}}

\* The closing loop (logic.py 166-169): every db_map row whose id left the feed.
CloseMissing(table, db_map, api_ids, now) ==
    [i \in DOMAIN table |->
        IF \E n \in DOMAIN db_map : db_map[n] = i /\ n \notin api_ids
        THEN [table[i] EXCEPT !.valid_to = now]
        ELSE table[i]]

\* The table sync_groups commits, for one choice of db_map.
SyncGroupsResult(table, db_map, valid_spec_ids, items, now) ==
    IF items = <<>> THEN table
    ELSE CloseMissing(SyncGroupItems(table, db_map, valid_spec_ids, items, now),
                      db_map, ApiIds(items, valid_spec_ids), now)

\* -------------------------------------------------- schedule documents
\* DAYS_MAP (logic.py 13-16); the keys stand for the Russian weekday names.
DAYS_MAP ==
    [d \in {"Ponedelnik", "Vtornik", "Sreda", "Chetverg", "Pyatnitsa", "Subbota",
            "Voskresenye"} |->
        CASE d = "Ponedelnik" -> 1 [] d = "Vtornik" -> 2 [] d = "Sreda" -> 3
          [] d = "Chetverg" -> 4 [] d = "Pyatnitsa" -> 5 [] d = "Subbota" -> 6
          [] d = "Voskresenye" -> 7]

ParseFailed == -1

\* datetime.strptime(s, '%H:%M').time(), as minutes after midnight; a missing
\* key or a string of another shape raises, which the callers catch.
ParseTime(s) ==
    CASE s = "09:00" -> 540
      [] s = "10:35" -> 635
      [] s = "00:00" -> 0
      [] OTHER -> ParseFailed

\* _parse_date (logic.py 52-56): "%d.%m.%Y" to a date (yyyymmdd), else None.
_parse_date(s) ==
    CASE s = "15.01.2026" -> 20260115
      [] s = "20.01.2026" -> 20260120
      [] OTHER -> NULL

\* _parse_weeks (logic.py 18-21)
_parse_weeks(weeks_list) ==
    IF weeks_list = <<>> \/ weeks_list = <<0>> THEN <<1, 2, 3, 4>> ELSE weeks_list

\* _extract_aud_names (logic.py 23-34) over auditories given as an object
\* ([t |-> "dict", name, id]) or as a string ([t |-> "str", v]).
RECURSIVE _extract_aud_names(_)
_extract_aud_names(auds) ==
    IF auds = <<>> THEN <<>>
    ELSE LET a == Head(auds)
             val == IF a.t = "dict"
                    THEN (IF a.name # "" THEN a.name ELSE a.id)
                    ELSE a.v
         IN (IF val # "" THEN <<val>> ELSE <<>>) \o _extract_aud_names(Tail(auds))

Aud(name) == [t |-> "str", v |-> name]

Lesson(start, end, weeks, subject, auds, groups) ==
    [startLessonTime |-> start, endLessonTime |-> end, weekNumber |-> weeks,
     subject |-> subject, subjectFullName |-> "", auditories |-> auds,
     studentGroups |-> groups]

Exam(dateLesson, start, end, subject, auds) ==
    [dateLesson |-> dateLesson, startLessonTime |-> start, endLessonTime |-> end,
     subject |-> subject, subjectFullName |-> "", auditories |-> auds]

\* The documents the schedule endpoints may answer with.  NoData is an empty
\* body (None or {}); EmptyDoc has the keys and nothing under them.
NoData == [schedules |-> <<>>, exams |-> <<>>, nothing |-> TRUE]
EmptyDoc == [schedules |-> <<>>, exams |-> <<>>, nothing |-> FALSE]
DocA ==
    [schedules |-> <<
        <<"Ponedelnik",
          << Lesson("09:00", "10:35", <<>>, "Math", <<Aud("101-1"), [t |-> "dict", name |-> "", id |-> "7"]>>,
                    << [name |-> "g1", numberOfStudents |-> 30],
                       [name |-> "g2", numberOfStudents |-> 0] >>) >> >> >>,
     exams |-> <<>>, nothing |-> FALSE]
DocB ==
    [schedules |-> <<
        <<"Sreda",
          << Lesson("9 am", "10:35", <<1, 3>>, "Physics", <<Aud("101-1")>>, <<>>),
             Lesson("10:35", "10:35", <<0>>, "", <<>>,
                    << [name |-> "g2", numberOfStudents |-> 28] >>) >> >>,
        <<"Holiday", << Lesson("09:00", "10:35", <<2>>, "Chess", <<>>, <<>>) >> >> >>,
     exams |-> << Exam("15.01.2026", "soon", "", "", <<Aud("205-4")>>),
                  Exam("someday", "09:00", "10:35", "Math", <<>>) >>,
     nothing |-> FALSE]

Docs == {EmptyDoc, DocA, DocB}
Responses == Docs \cup {NoData}

\* ----------------------------------------------- _process_schedule_json
\* student_count_found (logic.py 303-315): the first positive numberOfStudents
\* a lesson reports for the group itself, NULL when there is none.
RECURSIVE CountInGroups(_, _)
CountInGroups(groups_list, entity_name) ==
    IF groups_list = <<>> THEN NULL
    ELSE IF Head(groups_list).name = entity_name /\ Head(groups_list).numberOfStudents > 0
         THEN Head(groups_list).numberOfStudents
         ELSE CountInGroups(Tail(groups_list), entity_name)

RECURSIVE CountInLessons(_, _)
CountInLessons(lessons, entity_name) ==
    IF lessons = <<>> THEN NULL
    ELSE LET c == CountInGroups(Head(lessons).studentGroups, entity_name)
         IN IF c # NULL THEN c ELSE CountInLessons(Tail(lessons), entity_name)

RECURSIVE student_count_found(_, _)
student_count_found(schedules, entity_name) ==
    IF schedules = <<>> THEN NULL
    ELSE LET c == CountInLessons(Head(schedules)[2], entity_name)
         IN IF c # NULL THEN c ELSE student_count_found(Tail(schedules), entity_name)

\* The event of one lesson (logic.py 329-359): none when a time fails to parse.
LessonEvents(lesson, day_num, entity_name, entity_type) ==
    LET s_time == ParseTime(lesson.startLessonTime)
        e_time == ParseTime(lesson.endLessonTime)
        subj == IF lesson.subject # "" THEN lesson.subject ELSE "Bez nazvaniya"
    IN IF s_time = ParseFailed \/ e_time = ParseFailed THEN <<>>
       ELSE << [entity_name |-> entity_name, entity_type |-> entity_type,
                subject |-> subj,
                subject_full |-> IF lesson.subjectFullName # ""
                                 THEN lesson.subjectFullName ELSE subj,
                auditories |-> _extract_aud_names(lesson.auditories),
                day_of_week |-> day_num, start_time |-> s_time, end_time |-> e_time,
                week_numbers |-> _parse_weeks(lesson.weekNumber),
                exact_date |-> NULL] >>

RECURSIVE DayEvents(_, _, _, _)
DayEvents(lessons, day_num, entity_name, entity_type) ==
    IF lessons = <<>> THEN <<>>
    ELSE LessonEvents(Head(lessons), day_num, entity_name, entity_type)
         \o DayEvents(Tail(lessons), day_num, entity_name, entity_type)

\* The loop over schedules.items() (logic.py 324-359).
RECURSIVE ScheduleEventsOf(_, _, _)
ScheduleEventsOf(schedules, entity_name, entity_type) ==
    IF schedules = <<>> THEN <<>>
    ELSE LET day_name == Head(schedules)[1]
             lessons == Head(schedules)[2]
         IN (IF day_name \notin DOMAIN DAYS_MAP \/ lessons = <<>> THEN <<>>
             ELSE DayEvents(lessons, DAYS_MAP[day_name], entity_name, entity_type))
            \o ScheduleEventsOf(Tail(schedules), entity_name, entity_type)

\* The exam loop with `continue` where the times fail to parse, as in the
\* lesson loop.
ExamEventsSkipsBadTime(exam, entity_name, entity_type) ==
    LET date_obj == _parse_date(exam.dateLesson)
        s == ParseTime(exam.startLessonTime)
        e == ParseTime(exam.endLessonTime)
    IN IF date_obj = NULL \/ s = ParseFailed \/ e = ParseFailed THEN <<>>
       ELSE << [entity_name |-> entity_name, entity_type |-> entity_type,
                subject |-> IF exam.subject # "" THEN exam.subject ELSE "Ekzamen",
                subject_full |-> IF exam.subjectFullName # ""
                                 THEN exam.subjectFullName
                                 ELSE IF exam.subject # "" THEN exam.subject ELSE "Ekzamen",
                auditories |-> _extract_aud_names(exam.auditories),
                day_of_week |-> NULL, start_time |-> s, end_time |-> e,
                week_numbers |-> <<>>, exact_date |-> date_obj] >>

\* The event of one exam (logic.py 362-385): none without a date, and a
\* midnight-midnight time when a time fails to parse.
ExamEvents(exam, entity_name, entity_type) ==
    LET date_obj == _parse_date(exam.dateLesson)
        s == ParseTime(exam.startLessonTime)
        e == ParseTime(exam.endLessonTime)
        bad == s = ParseFailed \/ e = ParseFailed
        subj == IF exam.subject # "" THEN exam.subject ELSE "Ekzamen"
    IN IF date_obj = NULL THEN <<>>
       ELSE << [entity_name |-> entity_name, entity_type |-> entity_type,
                subject |-> subj,
                subject_full |-> IF exam.subjectFullName # ""
                                 THEN exam.subjectFullName ELSE subj,
                auditories |-> _extract_aud_names(exam.auditories),
                day_of_week |-> NULL,
                start_time |-> IF bad THEN ParseTime("00:00") ELSE s,
                end_time |-> IF bad THEN ParseTime("00:00") ELSE e,
                week_numbers |-> <<>>, exact_date |-> date_obj] >>

RECURSIVE ExamsEventsOf(_, _, _)
ExamsEventsOf(exams, entity_name, entity_type) ==
    IF exams = <<>> THEN <<>>
    ELSE ExamEvents(Head(exams), entity_name, entity_type)
         \o ExamsEventsOf(Tail(exams), entity_name, entity_type)

\* The list `events` _process_schedule_json builds from a document.
EventsOf(data, entity_name, entity_type) ==
    ScheduleEventsOf(data.schedules, entity_name, entity_type)
    \o ExamsEventsOf(data.exams, entity_name, entity_type)

\* A NULL in a text column.
NoText == ""

Tables ==
    [student_groups |-> student_groups, employees |-> employees,
     schedule_json_storage |-> schedule_json_storage,
     schedule_events |-> schedule_events]

\* The filter with its valid_to test turned around: it picks the rows already
\* closed, so the UPDATE leaves every open row open.
IsOpenArchiveClosedRows(row, entity_name, entity_type, employee_id) ==
    /\ IF entity_type = "group" THEN row.group_name = entity_name
                                ELSE row.employee_id = employee_id
    /\ row.entity_type = entity_type
    /\ row.valid_to # NULL

\* filter_cond, entity_type and valid_to IS NULL (logic.py 274-284)
IsOpenArchive(row, entity_name, entity_type, employee_id) ==
    /\ IF entity_type = "group" THEN row.group_name = entity_name
                                ELSE row.employee_id = employee_id
    /\ row.entity_type = entity_type
    /\ row.valid_to = NULL

\* new_json (logic.py 288-295)
new_json(entity_name, entity_type, data, employee_id) ==
    [group_name |-> IF entity_type = "group" THEN entity_name ELSE NoText,
     employee_id |-> IF entity_type = "employee" THEN employee_id ELSE NULL,
     entity_type |-> entity_type, data |-> data, valid_to |-> NULL]

\* The SQL statements one call executes, in order (the conditional ones only
\* when their condition holds); each of them may raise.
Statements(entity_name, entity_type, data) ==
    <<"close_archive", "insert_archive">>
    \o (IF entity_type = "group" /\ student_count_found(data.schedules, entity_name) # NULL
        THEN <<"refresh_count">> ELSE <<>>)
    \o <<"delete_events">>
    \o (IF EventsOf(data, entity_name, entity_type) # <<>>
        THEN <<"insert_events", "search_vector">> ELSE <<>>)

\* An enrollment refresh that does not ask whether the row is open.
IsOpenGroupAnyVersion(row, entity_name) == row.name = entity_name

\* The rows the enrollment refresh updates (logic.py 319):
\* StudentGroup.name == entity_name, StudentGroup.valid_to.is_(None)
IsOpenGroup(row, entity_name) == row.name = entity_name /\ row.valid_to = NULL

\* The effect of one statement on the session's tables.
Execute(stmt, t, entity_name, entity_type, data, employee_id, now) ==
    CASE stmt = "close_archive" ->
            [t EXCEPT !.schedule_json_storage =
                [i \in DOMAIN @ |->
                    IF IsOpenArchive(@[i], entity_name, entity_type, employee_id)
                    THEN [@[i] EXCEPT !.valid_to = now] ELSE @[i]]]
      [] stmt = "insert_archive" ->
            [t EXCEPT !.schedule_json_storage =
                Append(@, new_json(entity_name, entity_type, data, employee_id))]
      [] stmt = "refresh_count" ->
            [t EXCEPT !.student_groups =
                [i \in DOMAIN @ |->
                    IF IsOpenGroup(@[i], entity_name)
                    THEN [@[i] EXCEPT !.number_of_students =
                              student_count_found(data.schedules, entity_name)]
                    ELSE @[i]]]
      [] stmt = "delete_events" ->
            [t EXCEPT !.schedule_events =
                SelectSeq(@, LAMBDA e : ~(e.entity_name = entity_name
                                          /\ e.entity_type = entity_type))]
      [] stmt = "insert_events" ->
            [t EXCEPT !.schedule_events = @ \o EventsOf(data, entity_name, entity_type)]
      [] OTHER -> t   \* search_vector: the tsvector column is not modelled

RECURSIVE ExecuteAll(_, _, _, _, _, _, _)
ExecuteAll(stmts, t, entity_name, entity_type, data, employee_id, now) ==
    IF stmts = <<>> THEN t
    ELSE ExecuteAll(Tail(stmts),
                    Execute(Head(stmts), t, entity_name, entity_type, data, employee_id, now),
                    entity_name, entity_type, data, employee_id, now)

\* _process_schedule_json (logic.py 271-404) with its first `failing - 1`
\* statements executed: the session's tables when statement `failing` raises,
\* and when none does (failing beyond the last statement) as the call returns.
\* An employee call without an employee id returns at once.
_process_schedule_json(t, entity_name, entity_type, data, employee_id, failing, now) ==
    IF entity_type # "group" /\ employee_id = NULL THEN t
    ELSE LET stmts == Statements(entity_name, entity_type, data)
             done == IF failing - 1 < Len(stmts) THEN failing - 1 ELSE Len(stmts)
         IN ExecuteAll(SubSeq(stmts, 1, done), t, entity_name, entity_type, data,
                       employee_id, now)

\* The number of statements a call executes; its COMMIT is one more.
NumStatements(entity_name, entity_type, data, employee_id) ==
    IF entity_type # "group" /\ employee_id = NULL THEN 0
    ELSE Len(Statements(entity_name, entity_type, data))

\* A rollback that undoes nothing: the writes made before the statement that
\* raised stay in the session's tables.
RollbackKeepsWrites(working, last_commit) == working

\* session.rollback(), and before it the rollback to the savepoint of
\* begin_nested(): the session's tables are again those of the last COMMIT.
Rollback(working, last_commit) == last_commit

\* ------------------------------------------------------------ the session
\* Session.rollback() does nothing without a transaction in progress; with one
\* it restores the last COMMIT and expires every ORM instance of the session,
\* whatever expire_on_commit says.
SessionRollback ==
    /\ student_groups' = IF txn THEN Rollback(Tables, committed).student_groups
                                ELSE student_groups
    /\ employees' = IF txn THEN Rollback(Tables, committed).employees ELSE employees
    /\ schedule_json_storage' =
           IF txn THEN Rollback(Tables, committed).schedule_json_storage
                  ELSE schedule_json_storage
    /\ schedule_events' = IF txn THEN Rollback(Tables, committed).schedule_events
                                 ELSE schedule_events
    /\ committed' = committed
    /\ expired' = (expired \/ txn)
    /\ txn' = FALSE

\* The session's tables become t and are committed.
Commit(t) ==
    /\ student_groups' = t.student_groups
    /\ employees' = t.employees
    /\ schedule_json_storage' = t.schedule_json_storage
    /\ schedule_events' = t.schedule_events
    /\ committed' = t
    /\ txn' = FALSE

\* The statement that raised left the session's tables as `working`; the
\* savepoint and then the session are rolled back.
RollbackFrom(working) ==
    /\ student_groups' = Rollback(working, committed).student_groups
    /\ employees' = Rollback(working, committed).employees
    /\ schedule_json_storage' = Rollback(working, committed).schedule_json_storage
    /\ schedule_events' = Rollback(working, committed).schedule_events
    /\ committed' = committed
    /\ expired' = TRUE
    /\ txn' = FALSE

\* The record of one phase-2 attempt.
Attempted(entity_name, entity_type, employee_id, outcome, data, before) ==
    [entity |-> entity_name, type |-> entity_type, employee_id |-> employee_id,
     outcome |-> outcome, data |-> data, before |-> before]

NoAttempt == Attempted(NoText, NoText, NULL, "none", NoData, <<>>)

\* ------------------------------------------------------- sync_employees
EmployeeIds == {0, 1}
Urls == {"u", "v"}
EmployeeItems == [id : EmployeeIds, urlId : Urls \cup {NoText}]

\* One upsert of sync_employees (logic.py 184-195): items without a urlId
\* are passed over; employees.url_id is UNIQUE, so a url id another row
\* holds makes the statement raise.
RECURSIVE SyncEmployeeItems(_, _)
SyncEmployeeItems(table, items) ==
    IF items = <<>> THEN [raised |-> FALSE, table |-> table]
    ELSE LET item == Head(items) IN
         IF item.urlId = NoText THEN SyncEmployeeItems(table, Tail(items))
         ELSE IF \E e \in DOMAIN table : e # item.id /\ table[e] = item.urlId
         THEN [raised |-> TRUE, table |-> table]
         ELSE SyncEmployeeItems(
                  [e \in DOMAIN table \cup {item.id} |->
                      IF e = item.id THEN item.urlId ELSE table[e]],
                  Tail(items))

\* ------------------------------------------------- BsuirApiClient._get
\* settings.CONCURRENCY_LIMIT (config.py 7) and stop_after_attempt(5)
\* (client.py 26)
CONCURRENCY_LIMIT == 5
stop_after_attempt == 5

\* What one request may end in: a status code, an httpx transport error or
\* timeout, or a 200 whose body is no JSON.
Outcomes ==
    {"200", "404", "429", "503", "RequestError", "TimeoutException", "JSONDecodeError"}

\* The exception the body of _get raises (client.py 33-36): raise_for_status
\* raises HTTPStatusError for every 4xx and 5xx status.
ExceptionOf(outcome) ==
    CASE outcome = "200" -> "none"
      [] outcome \in {"404", "429", "503"} -> "HTTPStatusError"
      [] OTHER -> outcome

\* retry_if_exception_type((RequestError, TimeoutException, HTTPStatusError))
\* (client.py 28)
retry_if_exception_type(exception) ==
    exception \in {"RequestError", "TimeoutException", "HTTPStatusError"}

\* A stop condition that never holds.
StopNever(attempt_number) == FALSE

\* stop_after_attempt(5) (client.py 26)
Stop(attempt_number) == attempt_number >= stop_after_attempt

\* A semaphore that lets every caller through.
CanAcquireAlways(value) == TRUE

\* asyncio.Semaphore.acquire() goes on without waiting while _value > 0.
CanAcquire(value) == value > 0

\* Where a caller of _get may stand: not yet calling ("idle"), at `async
\* with self.semaphore` before attempt k ("waiting"), with request k sent and
\* not answered ("in_flight"), asleep after attempt k failed ("backoff"), or
\* back in its caller with the answer ("returned") or an error ("raised").
At(place, attempt_number) == [at |-> place, attempt |-> attempt_number]

Places ==
    {At("idle", 0), At("returned", 0), At("raised", 0)}
    \cup {At(place, k) : place \in {"waiting", "in_flight", "backoff"},
                         k \in 1..(stop_after_attempt + 1)}

\* One caller goes from one place to another.
Move(from, to) ==
    callers' = [callers EXCEPT ![from] = @ - 1, ![to] = @ + 1]

InFlight ==
    {p \in Places : p.at = "in_flight" /\ callers[p] > 0}

InitClient ==
    /\ callers = [p \in Places |-> IF p = At("idle", 0) THEN NumCallers ELSE 0]
    /\ semaphore = CONCURRENCY_LIMIT
    /\ last_response = [outcome |-> "none", attempt |-> 0, then |-> "none"]

\* A caller awaits client._get(...): the first attempt begins.
CallGet ==
    /\ UNCHANGED nonclientvars
    /\ callers[At("idle", 0)] > 0
    /\ Move(At("idle", 0), At("waiting", 1))
    /\ UNCHANGED <<semaphore, last_response>>

\* `async with self.semaphore` is entered and the request is sent
\* (client.py 31-33).
SendRequest ==
    /\ UNCHANGED nonclientvars
    /\ \E k \in 1..(stop_after_attempt + 1) :
          /\ callers[At("waiting", k)] > 0
          /\ CanAcquire(semaphore)
          /\ Move(At("waiting", k), At("in_flight", k))
    /\ semaphore' = semaphore - 1
    /\ UNCHANGED last_response

\* The request is answered: the `async with` block is left, by return or by
\* exception, which releases the permit; then tenacity returns the result,
\* lets an exception it does not retry on through, sleeps before another
\* attempt, or gives up with RetryError (client.py 25-36).
Answer ==
    /\ UNCHANGED nonclientvars
    /\ \E p \in InFlight : \E outcome \in Outcomes :
       LET exception == ExceptionOf(outcome)
           then == IF exception = "none" THEN "returned"
                   ELSE IF ~retry_if_exception_type(exception) THEN "raised"
                   ELSE IF Stop(p.attempt) THEN "raised"
                   ELSE "backoff"
       IN /\ Move(p, IF then = "backoff" THEN At("backoff", p.attempt) ELSE At(then, 0))
          /\ last_response' = [outcome |-> outcome, attempt |-> p.attempt, then |-> then]
    /\ semaphore' = semaphore + 1

\* The wait of wait_exponential is over: the next attempt begins.
Resume ==
    /\ UNCHANGED nonclientvars
    /\ \E k \in 1..stop_after_attempt :
          /\ callers[At("backoff", k)] > 0
          /\ Move(At("backoff", k), At("waiting", k + 1))
    /\ UNCHANGED <<semaphore, last_response>>

\* ------------------------------------------------ the reference syncers
\* Tables with a primary key are functions from the key to the row.
Upsert(table, id, row) ==
    [k \in DOMAIN table \cup {id} |-> IF k = id THEN row ELSE table[k]]

\* A UNIQUE column of the row holds a value another row of the table holds.
UniqueClash(table, id, row, columns) ==
    \E other \in DOMAIN table \ {id} : \E c \in columns : table[other][c] = row[c]

NoRows == <<>>

\* ---- sync_faculties (logic.py 73-83)
FacultyItems ==
    {[id |-> 1, name |-> "FKSIS", abbrev |-> "FKSIS"],
     [id |-> 2, name |-> "FITU", abbrev |-> "FITU"]}

RECURSIVE SyncFacultyItems(_, _)
SyncFacultyItems(table, items) ==
    IF items = <<>> THEN [raised |-> "none", faculties |-> table]
    ELSE LET item == Head(items)
             row == [name |-> item.name, abbr |-> item.abbrev]
         IN IF UniqueClash(table, item.id, row, {"name", "abbr"})
            THEN [raised |-> "UniqueViolationError", faculties |-> table]
            ELSE SyncFacultyItems(Upsert(table, item.id, row), Tail(items))

\* ---- sync_departments (logic.py 85-97)
DepartmentItems == [id : {1, 2}, name : {"Math", "Optics"}, abbrev : {NoText}]

\* The row the INSERT proposes, and the row the DO UPDATE leaves: url_id is
\* not in its SET list.
DepartmentRow(table, item) ==
    LET name == item.name
        abbr == IF item.abbrev # NoText THEN item.abbrev ELSE name
    IN [name |-> name, abbr |-> abbr,
        url_id |-> IF item.id \in DOMAIN table THEN table[item.id].url_id
                   ELSE ToString(item.id)]

RECURSIVE SyncDepartmentItems(_, _)
SyncDepartmentItems(table, items) ==
    IF items = <<>> THEN [raised |-> "none", departments |-> table]
    ELSE LET item == Head(items)
             row == DepartmentRow(table, item)
         IN IF UniqueClash(table, item.id, row, {"name", "abbr", "url_id"})
            THEN [raised |-> "UniqueViolationError", departments |-> table]
            ELSE SyncDepartmentItems(Upsert(table, item.id, row), Tail(items))

\* ---- sync_specialities (logic.py 99-123)
SpecialityItems ==
    [id : {10}, name : {"Software"}, facultyId : {1, 2}, educationForm : {NoText, "day"}]

\* Faculty(id=fac_id, name=f"Unknown Faculty {fac_id}", abbr=f"UNK-{fac_id}")
PlaceholderFaculty(fac_id) ==
    [name |-> "Unknown Faculty " \o ToString(fac_id), abbr |-> "UNK-" \o ToString(fac_id)]

\* edu_form_val (logic.py 112-113)
edu_form_val(item) == IF item.educationForm # NoText THEN item.educationForm ELSE "Unknown"

\* The row the INSERT proposes, and the row the DO UPDATE leaves:
\* education_form is not in its SET list.
SpecialityRow(table, item) ==
    [name |-> item.name, faculty_id |-> item.facultyId,
     education_form |->
        IF item.id \in DOMAIN table THEN table[item.id].education_form
        ELSE edu_form_val(item)]

\* The faculties after lines 107-110: the placeholder is added when fac_id
\* is not among existing_faculty_ids.
HealedFaculties(facs, existing_faculty_ids, fac_id) ==
    IF fac_id \in existing_faculty_ids THEN facs
    ELSE Upsert(facs, fac_id, PlaceholderFaculty(fac_id))

\* The INSERT or UPDATE of a row whose foreign key names no row of the parent
\* table is refused.
RECURSIVE SyncSpecialityItems(_, _, _, _)
SyncSpecialityItems(facs, specs, existing_faculty_ids, items) ==
    IF items = <<>> THEN [raised |-> "none", faculties |-> facs, specialities |-> specs]
    ELSE LET item == Head(items)
             fac_id == item.facultyId
             healed == HealedFaculties(facs, existing_faculty_ids, fac_id)
         IN IF /\ fac_id \notin existing_faculty_ids
               /\ UniqueClash(facs, fac_id, PlaceholderFaculty(fac_id), {"name", "abbr"})
            THEN [raised |-> "UniqueViolationError", faculties |-> facs,
                  specialities |-> specs]
            ELSE IF fac_id \notin DOMAIN healed
            THEN [raised |-> "ForeignKeyViolationError", faculties |-> healed,
                  specialities |-> specs]
            ELSE SyncSpecialityItems(healed,
                                     Upsert(specs, item.id, SpecialityRow(specs, item)),
                                     existing_faculty_ids \cup {fac_id}, Tail(items))

\* ---- sync_employees (logic.py 173-216)
\* name.strip().lower() over the names the snapshots hold.
Lower(text) ==
    CASE text = "Math" -> "math"
      [] text = "Optics" -> "optics"
      [] OTHER -> text

\* dept_map.get(key) (logic.py 177-181, 209): the department whose lowered
\* name or abbreviation is the key, NULL when there is none.  The names and
\* abbreviations of the snapshots never lower to one key for two departments.
DeptMapGet(table, key) ==
    LET found == {d \in DOMAIN table :
                     Lower(table[d].name) = key \/ Lower(table[d].abbr) = key}
    IN IF found = {} THEN NULL ELSE CHOOSE d \in found : TRUE

RefEmployeeItems ==
    [id : {1}, urlId : {"u", NoText}, academicDepartment : {<<>>, <<"Math", "Mat">>}]

\* The links of one item (logic.py 197-214): the employee's links are
\* deleted, and one is inserted for every department name that resolves.
RECURSIVE SyncEmployeeLinks(_, _, _)
SyncEmployeeLinks(links, table, items) ==
    IF items = <<>> THEN links
    ELSE LET item == Head(items)
             dids == {DeptMapGet(table, Lower(item.academicDepartment[k])) :
                         k \in DOMAIN item.academicDepartment} \ {NULL}
         IN IF item.urlId = NoText THEN SyncEmployeeLinks(links, table, Tail(items))
            ELSE SyncEmployeeLinks(
                     {l \in links : l[2] # item.id} \cup {<<did, item.id>> : did \in dids},
                     table, Tail(items))

\* ---- sync_auditories (logic.py 218-269)
\* The embedded department of an item: none, or a dict with idDepartment and
\* name.
NoDepartment == [idDepartment |-> NULL, name |-> NoText]

AuditoryItems ==
    {[id |-> 1, name |-> "101", buildingNumber |-> building, department |-> dept,
      departmentId |-> departmentId] :
        building \in {NoText, "1 k."},
        dept \in {NoDepartment} \cup [idDepartment : {1, 3}, name : {"Math", NoText}],
        departmentId \in {NULL, 1}}

\* final_name (logic.py 226-236); `build_name not in raw_name` holds for the
\* names of AuditoryItems.
final_name(item) ==
    IF item.buildingNumber # NoText THEN item.name \o "-" \o item.buildingNumber
    ELSE item.name

\* The placeholder department of lines 244-248.
PlaceholderDepartment(dept_info) ==
    [name |-> IF dept_info.name # NoText THEN dept_info.name
              ELSE "Dept " \o ToString(dept_info.idDepartment),
     abbr |-> "D-" \o ToString(dept_info.idDepartment),
     url_id |-> ToString(dept_info.idDepartment)]

\* pg_insert(Department)...on_conflict_do_nothing() (logic.py 246-249): a
\* row that clashes on the key or on a UNIQUE column is not inserted.
InsertOrNothing(table, id, row) ==
    IF id \in DOMAIN table \/ UniqueClash(table, id, row, {"name", "abbr", "url_id"})
    THEN table
    ELSE Upsert(table, id, row)

\* One item of the loop (logic.py 225-268), given existing_dept_ids:
\* the departments, the auditories and existing_dept_ids after it.
SyncAuditoryItem(depts, auds, existing_dept_ids, item) ==
    LET dept_info == item.department
        d_id == dept_info.idDepartment
        heal == dept_info # NoDepartment /\ d_id # NULL /\ d_id \notin existing_dept_ids
        depts2 == IF heal THEN InsertOrNothing(depts, d_id, PlaceholderDepartment(dept_info))
                  ELSE depts
        existing2 == IF heal THEN existing_dept_ids \cup {d_id} ELSE existing_dept_ids
        dept_id1 == IF heal THEN d_id ELSE item.departmentId
        dept_id == IF dept_id1 # NULL /\ dept_id1 \notin existing2 THEN NULL ELSE dept_id1
        inserted == item.id \notin DOMAIN auds
        row == IF inserted THEN [name |-> final_name(item), department_id |-> dept_id]
               ELSE [auds[item.id] EXCEPT !.name = final_name(item)]
    IN IF inserted /\ dept_id # NULL /\ dept_id \notin DOMAIN depts2
       THEN [raised |-> "ForeignKeyViolationError", departments |-> depts2,
             auditories |-> auds, existing_dept_ids |-> existing2]
       ELSE [raised |-> "none", departments |-> depts2,
             auditories |-> Upsert(auds, item.id, row), existing_dept_ids |-> existing2]

RECURSIVE SyncAuditoryItems(_, _, _, _)
SyncAuditoryItems(depts, auds, existing_dept_ids, items) ==
    IF items = <<>> THEN [raised |-> "none", departments |-> depts, auditories |-> auds]
    ELSE LET r == SyncAuditoryItem(depts, auds, existing_dept_ids, Head(items))
         IN IF r.raised # "none"
            THEN [raised |-> r.raised, departments |-> depts, auditories |-> auds]
            ELSE SyncAuditoryItems(r.departments, r.auditories, r.existing_dept_ids,
                                   Tail(items))

NoFeeds ==
    [faculties |-> <<>>, departments |-> <<>>, specialities |-> <<>>,
     student_groups |-> <<>>, employees |-> <<>>, auditories |-> <<>>]

InitRefs ==
    /\ faculties = NoRows
    /\ departments = NoRows
    /\ specialities = NoRows
    /\ departments_employees = {}
    /\ feeds = NoFeeds
    /\ ref_pass = 1
    /\ after_first = NoRows

\* The variables of the other specifications, before anything ran.
InitStamps == valid_from = <<>>
InitDocument == document = NoData

InitAuditories == auditories = <<>>
InitIndex == occupancy_index = {}

InitLab ==
    /\ InitStamps
    /\ InitDocument
    /\ InitAuditories
    /\ InitIndex
    /\ InitClient
    /\ InitRefs

\* ---------------------------------------------------------------- main()
\* The snapshots of /student-groups a whole run is explored with.
RunGroupItems ==
    {g \in GroupItems : g.course = 1 /\ g.specialityDepartmentEducationFormId = 10
                        /\ g.numberOfStudents = NULL}

\* One phase-1 syncer of the run: its name, how it ended ("committed",
\* "returned" without a COMMIT, or "raised"), and whether the session held
\* uncommitted writes when it was called.
Step(name, outcome) ==
    [name |-> name, outcome |-> outcome, pending |-> (Tables # committed)]

\* An error that is recorded while main() carries on with phase 2.
RaiseAndCarryOn(e) ==
    /\ exc' = e
    /\ pc' = "phase1_done"

\* A phase-1 step raised: main() goes to its except clause.
Raise(e) ==
    /\ exc' = e
    /\ pc' = "except"

\* sync_system_state (logic.py 58-71) catches whatever it raises.
SyncSystemState ==
    /\ UNCHANGED <<steps, labvars>>
    /\ pc = "sync_system_state"
    /\ pc' = "sync_faculties"
    /\ \/ log' = log
       \/ log' = log \cup {"error"}
    /\ UNCHANGED <<dbvars, run, group_names, emp_list, idx, txn, expired, exc, clock,
                   api_groups, pre_groups, fetched, attempt, rebuilds, phase1_ok,
                   client_closed, exit_status>>

\* A reference syncer whose table is not modelled: it commits or it raises.
ReferenceSyncer(here, next) ==
    /\ UNCHANGED labvars
    /\ pc = here
    /\ \/ pc' = next /\ exc' = exc /\ steps' = Append(steps, Step(here, "committed"))
       \/ Raise("Error") /\ steps' = Append(steps, Step(here, "raised"))
    /\ UNCHANGED <<dbvars, run, group_names, emp_list, idx, txn, expired, clock,
                   api_groups, pre_groups, obsvars>>

SyncFaculties == ReferenceSyncer("sync_faculties", "sync_departments")
SyncDepartments == ReferenceSyncer("sync_departments", "sync_specialities")
\* main() going from sync_specialities straight to sync_employees.
SyncSpecialitiesSkipsGroups == ReferenceSyncer("sync_specialities", "sync_employees")

SyncSpecialities == ReferenceSyncer("sync_specialities", "sync_groups")
SyncAuditories == ReferenceSyncer("sync_auditories", "phase1_done")

\* sync_groups (logic.py 125-171): the fetch raises, or the snapshot is
\* processed and the COMMIT succeeds or raises.
SyncGroups ==
    /\ UNCHANGED labvars
    /\ pc = "sync_groups"
    /\ \/ /\ Raise("Error")
          /\ steps' = Append(steps, Step("sync_groups", "raised"))
          /\ UNCHANGED <<dbvars, api_groups, pre_groups, txn>>
       \/ \E items \in SeqsUpTo(RunGroupItems, MaxRunFeedLen) :
          \E db_map \in DbMaps(student_groups) :
          LET t == [Tables EXCEPT !.student_groups =
                       SyncGroupsResult(student_groups, db_map, KnownSpecialities,
                                        items, clock)]
          IN /\ api_groups' = items
             /\ pre_groups' = student_groups
             /\ \/ /\ Commit(t)
                   /\ pc' = "sync_employees"
                   /\ exc' = exc
                   /\ steps' = Append(steps, Step("sync_groups",
                                  IF items = <<>> THEN "returned" ELSE "committed"))
                \/ /\ items # <<>>
                   /\ steps' = Append(steps, Step("sync_groups", "raised"))
                   /\ student_groups' = t.student_groups
                   /\ UNCHANGED <<employees, schedule_json_storage, schedule_events,
                                  committed>>
                   /\ txn' = TRUE
                   /\ Raise("Error")
    /\ UNCHANGED <<run, group_names, emp_list, idx, expired, clock, obsvars>>

\* sync_employees (logic.py 173-216), the employees table only.
SyncEmployees ==
    /\ UNCHANGED labvars
    /\ pc = "sync_employees"
    /\ \/ /\ Raise("Error")
          /\ steps' = Append(steps, Step("sync_employees", "raised"))
          /\ UNCHANGED <<dbvars, txn>>
       \/ \E items \in SeqsUpTo(EmployeeItems, MaxRunFeedLen - Len(api_groups)) :
          LET r == SyncEmployeeItems(employees, items)
          IN IF r.raised
             THEN /\ employees' = r.table
                  /\ UNCHANGED <<student_groups, schedule_json_storage, schedule_events,
                                 committed>>
                  /\ txn' = TRUE
                  /\ Raise("IntegrityError")
                  /\ steps' = Append(steps, Step("sync_employees", "raised"))
             ELSE /\ Commit([Tables EXCEPT !.employees = r.table])
                  /\ pc' = "sync_auditories"
                  /\ exc' = exc
                  /\ steps' = Append(steps, Step("sync_employees", "committed"))
    /\ UNCHANGED <<run, group_names, emp_list, idx, expired, clock, api_groups,
                   pre_groups, obsvars>>

\* logger.success("phase 1 completed") (main.py 49)
Phase1Done ==
    /\ UNCHANGED <<steps, labvars>>
    /\ pc = "phase1_done"
    /\ phase1_ok' = TRUE
    /\ pc' = "group_schedules_select"
    /\ UNCHANGED <<dbvars, run, group_names, emp_list, idx, txn, expired, exc, clock,
                   api_groups, pre_groups, fetched, attempt, log, rebuilds,
                   client_closed, exit_status>>

\* ------------------------------------------------------------- phase 2
\* select(StudentGroup.name).where(valid_to IS NULL) (logic.py 407-408): one
\* name per open row, in table order.
RECURSIVE OpenGroupNames(_)
OpenGroupNames(table) ==
    IF table = <<>> THEN <<>>
    ELSE (IF Head(table).valid_to = NULL THEN <<Head(table).name>> ELSE <<>>)
         \o OpenGroupNames(Tail(table))

Min(S) == CHOOSE x \in S : \A y \in S : x <= y

\* select(Employee).where(url_id IS NOT NULL) (logic.py 427-428), by id.
RECURSIVE EmployeeRows(_, _)
EmployeeRows(table, ids) ==
    IF ids = {} THEN <<>>
    ELSE << [id |-> Min(ids), url_id |-> table[Min(ids)]] >>
         \o EmployeeRows(table, ids \ {Min(ids)})

GroupSchedulesSelect ==
    /\ UNCHANGED <<steps, labvars>>
    /\ pc = "group_schedules_select"
    /\ group_names' = OpenGroupNames(student_groups)
    /\ idx' = 1
    /\ txn' = TRUE
    /\ pc' = "group_schedules"
    /\ UNCHANGED <<dbvars, run, emp_list, expired, exc, clock, api_groups, pre_groups,
                   obsvars>>

\* What one iteration of a phase-2 loop does once its fetch was sent
\* (logic.py 412-424, 432-445): the fetch raises; or the answer is passed
\* over; or it is processed in a nested transaction and committed, unless
\* statement `failing` (the COMMIT being the last) raises.
Iteration(entity_name, entity_type, employee_id) ==
    /\ fetched' = Append(fetched, <<entity_type, entity_name>>)
    /\ \/ /\ SessionRollback
          /\ log' = log \cup {"error"}
          /\ attempt' = Attempted(entity_name, entity_type, employee_id, "fetch_failed",
                                  NoData, Tables)
       \/ \E data \in Responses :
          IF \/ data.nothing
             \/ entity_type = "employee" /\ data.schedules = <<>> /\ data.exams = <<>>
          THEN /\ attempt' = Attempted(entity_name, entity_type, employee_id,
                                       "passed_over", data, Tables)
               /\ UNCHANGED <<dbvars, txn, expired, log>>
          ELSE LET n == NumStatements(entity_name, entity_type, data, employee_id) IN
               \E failing \in 1..(n + 2) :
               LET working == _process_schedule_json(Tables, entity_name, entity_type,
                                                     data, employee_id, failing, clock)
               IN IF failing <= n + 1
                  THEN /\ RollbackFrom(working)
                       /\ log' = log \cup {"error"}
                       /\ attempt' = Attempted(entity_name, entity_type, employee_id,
                                               "failed", data, Tables)
                  ELSE /\ Commit(working)
                       /\ attempt' = Attempted(entity_name, entity_type, employee_id,
                                               IF n = 0 THEN "skipped" ELSE "processed",
                                               data, Tables)
                       /\ UNCHANGED <<expired, log>>

GroupSchedule ==
    /\ UNCHANGED <<steps, labvars>>
    /\ pc = "group_schedules"
    /\ idx <= Len(group_names)
    /\ Iteration(group_names[idx], "group", NULL)
    /\ idx' = idx + 1
    /\ UNCHANGED <<pc, run, group_names, emp_list, exc, clock, api_groups, pre_groups,
                   rebuilds, phase1_ok, client_closed, exit_status>>

\* The SELECT of sync_all_employee_schedules loads the rows afresh.
EmployeeSchedulesSelect ==
    /\ UNCHANGED <<steps, labvars>>
    /\ pc = "group_schedules"
    /\ idx > Len(group_names)
    /\ emp_list' = EmployeeRows(employees, DOMAIN employees)
    /\ idx' = 1
    /\ txn' = TRUE
    /\ expired' = FALSE
    /\ pc' = "employee_schedules"
    /\ UNCHANGED <<dbvars, run, group_names, exc, clock, api_groups, pre_groups, obsvars>>

EmployeeSchedule ==
    /\ UNCHANGED <<steps, labvars>>
    /\ pc = "employee_schedules"
    /\ idx <= Len(emp_list)
    /\ ~expired
    /\ Iteration(emp_list[idx].url_id, "employee", emp_list[idx].id)
    /\ idx' = idx + 1
    /\ UNCHANGED <<pc, run, group_names, emp_list, exc, clock, api_groups, pre_groups,
                   rebuilds, phase1_ok, client_closed, exit_status>>

\* emp.url_id of an expired instance needs a load, which an AsyncSession
\* refuses outside an awaited call: MissingGreenlet.  It is raised in the try
\* block (logic.py 433) and again in the handler's message (logic.py 444),
\* where nothing catches it.
EmployeeExpired ==
    /\ UNCHANGED <<steps, labvars>>
    /\ pc = "employee_schedules"
    /\ idx <= Len(emp_list)
    /\ expired
    /\ Raise("MissingGreenlet")
    /\ UNCHANGED <<dbvars, run, group_names, emp_list, idx, txn, expired, clock,
                   api_groups, pre_groups, obsvars>>

Phase2Done ==
    /\ UNCHANGED <<steps, labvars>>
    /\ pc = "employee_schedules"
    /\ idx > Len(emp_list)
    /\ pc' = "rebuild"
    /\ UNCHANGED <<dbvars, run, group_names, emp_list, idx, txn, expired, exc, clock,
                   api_groups, pre_groups, obsvars>>

\* ------------------------------------------------------------- phase 3
\* The CASE of the SELECT (logic.py 454-457); the names stand for the Russian
\* weekday names, as in DAYS_MAP.
DayName(day_of_week) == CHOOSE d \in DOMAIN DAYS_MAP : DAYS_MAP[d] = day_of_week

Elements(seq) == {seq[k] : k \in DOMAIN seq}

\* FROM schedule_events se CROSS JOIN LATERAL unnest(se.week_numbers)
\* CROSS JOIN LATERAL unnest(se.auditories) JOIN auditories a ON a.name =
\* aud_name WHERE se.entity_type = 'group' AND se.day_of_week IS NOT NULL
\* (logic.py 464-468): the joined rows, as a set.
JoinedRows(events, auds) ==
    {[day_of_week |-> events[k].day_of_week, week_number |-> w,
      start_time |-> events[k].start_time, end_time |-> events[k].end_time,
      auditory_id |-> a, entity_name |-> events[k].entity_name] :
        k \in {i \in DOMAIN events : /\ events[i].entity_type = "group"
                                     /\ events[i].day_of_week # NULL},
        w \in UNION {Elements(events[i].week_numbers) : i \in DOMAIN events},
        a \in DOMAIN auds}

\* The rows of JoinedRows that the two unnests and the join really produce.
Joined(events, auds) ==
    {r \in JoinedRows(events, auds) :
        \E k \in DOMAIN events :
            /\ events[k].entity_type = "group"
            /\ events[k].day_of_week = r.day_of_week
            /\ events[k].start_time = r.start_time
            /\ events[k].end_time = r.end_time
            /\ events[k].entity_name = r.entity_name
            /\ r.week_number \in Elements(events[k].week_numbers)
            /\ auds[r.auditory_id].name \in Elements(events[k].auditories)}

\* GROUP BY day_of_week, week_num, start_time, end_time, a.id with
\* array_agg(DISTINCT se.entity_name) (logic.py 455-469).
Grouped(rows) ==
    {[day_of_week |-> DayName(r.day_of_week), week_number |-> r.week_number,
      start_time |-> r.start_time, end_time |-> r.end_time,
      auditory_id |-> r.auditory_id,
      groups |-> {q.entity_name : q \in {x \in rows :
                     /\ x.day_of_week = r.day_of_week
                     /\ x.week_number = r.week_number
                     /\ x.start_time = r.start_time
                     /\ x.end_time = r.end_time
                     /\ x.auditory_id = r.auditory_id}}] : r \in rows}

\* An index that keeps its rows where the rebuild should empty it.
TruncateKeepsRows(index) == index

\* TRUNCATE TABLE occupancy_index RESTART IDENTITY (logic.py 449)
Truncate(index) == {}

\* rebuild_occupancy_index (logic.py 447-476): the TRUNCATE is outside the
\* try block; a failing INSERT or COMMIT is logged and rolled back, the
\* TRUNCATE with it.
RebuildOccupancyIndex ==
    /\ UNCHANGED <<steps, restvars>>
    /\ pc = "rebuild"
    /\ rebuilds' = rebuilds + 1
    /\ \/ /\ Raise("Error")
          /\ txn' = TRUE
          /\ UNCHANGED <<dbvars, expired, log, occupancy_index>>
       \/ /\ Commit(Tables)
          /\ occupancy_index' =
                Truncate(occupancy_index) \cup Grouped(Joined(schedule_events, auditories))
          /\ pc' = "finally"
          /\ UNCHANGED <<exc, expired, log>>
       \/ /\ txn' = FALSE
          /\ expired' = TRUE
          /\ log' = log \cup {"error"}
          /\ pc' = "finally"
          /\ UNCHANGED <<dbvars, exc, occupancy_index>>
    /\ UNCHANGED <<run, group_names, emp_list, idx, clock, api_groups, pre_groups,
                   fetched, attempt, phase1_ok, client_closed, exit_status>>

\* except Exception as e: logger.critical(...); raise (main.py 59-61)
MainExcept ==
    /\ UNCHANGED <<steps, labvars>>
    /\ pc = "except"
    /\ log' = log \cup {"critical"}
    /\ pc' = "finally"
    /\ UNCHANGED <<dbvars, run, group_names, emp_list, idx, txn, expired, exc, clock,
                   api_groups, pre_groups, fetched, attempt, rebuilds, phase1_ok,
                   client_closed, exit_status>>

\* The exception in flight after the finally clause (main.py 62-64): a break
\* in a finally clause discards it.
FinallyBreak(e) == "none"

\* A finally clause that leaves without closing the client.
MainFinallyLeavesClientOpen ==
    /\ UNCHANGED <<steps, labvars>>
    /\ pc = "finally"
    /\ exc' = FinallyBreak(exc)
    /\ exit_status' = IF FinallyBreak(exc) = "none" THEN "zero" ELSE "nonzero"
    /\ pc' = "exit"
    /\ UNCHANGED <<dbvars, run, group_names, emp_list, idx, txn, expired, clock,
                   api_groups, pre_groups, fetched, attempt, log, rebuilds, phase1_ok,
                   client_closed>>

\* finally: await client.close(); break -- then main() returns or raises, and
\* asyncio.run(main()) (main.py 67-72) ends the process accordingly.
MainFinally ==
    /\ UNCHANGED <<steps, labvars>>
    /\ pc = "finally"
    /\ client_closed' = TRUE
    /\ exc' = FinallyBreak(exc)
    /\ exit_status' = IF FinallyBreak(exc) = "none" THEN "zero" ELSE "nonzero"
    /\ pc' = "exit"
    /\ UNCHANGED <<dbvars, run, group_names, emp_list, idx, txn, expired, clock,
                   api_groups, pre_groups, fetched, attempt, log, rebuilds, phase1_ok>>

CarriedRows ==
    Len(committed.student_groups) + Cardinality(DOMAIN committed.employees)
    + Len(committed.schedule_json_storage)

\* The job is started again: a new process and session, which see what the
\* earlier runs committed.
NewRun ==
    /\ UNCHANGED labvars
    /\ pc = "exit"
    /\ run < MaxRuns
    /\ CarriedRows <= MaxCarried
    /\ run' = run + 1
    /\ clock' = clock + 1
    /\ student_groups' = committed.student_groups
    /\ employees' = committed.employees
    /\ schedule_json_storage' = committed.schedule_json_storage
    /\ schedule_events' = committed.schedule_events
    /\ committed' = committed
    /\ pc' = "sync_system_state"
    /\ group_names' = <<>>
    /\ emp_list' = <<>>
    /\ idx' = 1
    /\ txn' = FALSE
    /\ expired' = FALSE
    /\ exc' = "none"
    /\ fetched' = <<>>
    /\ attempt' = NoAttempt
    /\ log' = {}
    /\ rebuilds' = 0
    /\ phase1_ok' = FALSE
    /\ client_closed' = FALSE
    /\ exit_status' = "running"
    /\ api_groups' = <<>>
    /\ pre_groups' = <<>>
    /\ steps' = <<>>

InitMain ==
    /\ student_groups = <<>>
    /\ employees = <<>>
    /\ schedule_json_storage = <<>>
    /\ schedule_events = <<>>
    /\ committed = [student_groups |-> <<>>, employees |-> <<>>,
                    schedule_json_storage |-> <<>>, schedule_events |-> <<>>]
    /\ pc = "sync_system_state"
    /\ run = 1
    /\ clock = 1
    /\ group_names = <<>>
    /\ emp_list = <<>>
    /\ idx = 1
    /\ txn = FALSE
    /\ expired = FALSE
    /\ exc = "none"
    /\ api_groups = <<>>
    /\ pre_groups = <<>>
    /\ fetched = <<>>
    /\ attempt = NoAttempt
    /\ log = {}
    /\ rebuilds = 0
    /\ phase1_ok = FALSE
    /\ client_closed = FALSE
    /\ exit_status = "running"
    /\ steps = <<>>

Init == InitMain /\ InitLab

Next ==
    \/ SyncSystemState
    \/ SyncFaculties
    \/ SyncDepartments
    \/ SyncSpecialities
    \/ SyncGroups
    \/ SyncEmployees
    \/ SyncAuditories
    \/ Phase1Done
    \/ GroupSchedulesSelect
    \/ GroupSchedule
    \/ EmployeeSchedulesSelect
    \/ EmployeeSchedule
    \/ EmployeeExpired
    \/ Phase2Done
    \/ RebuildOccupancyIndex
    \/ MainExcept
    \/ MainFinally
    \/ NewRun

Spec == Init /\ [][Next]_vars

\* --------------------------------------------- one run, to its end
\* One invocation of main() on an empty database.  Every await of main()
\* returns or raises: a fetch ends with its last attempt (client.py 25-29),
\* so the event loop always takes the coroutine's next step.
NextRun ==
    \/ SyncSystemState
    \/ SyncFaculties
    \/ SyncDepartments
    \/ SyncSpecialities
    \/ SyncGroups
    \/ SyncEmployees
    \/ SyncAuditories
    \/ Phase1Done
    \/ GroupSchedulesSelect
    \/ GroupSchedule
    \/ EmployeeSchedulesSelect
    \/ EmployeeSchedule
    \/ EmployeeExpired
    \/ Phase2Done
    \/ RebuildOccupancyIndex
    \/ MainExcept
    \/ MainFinally

SpecRun == Init /\ [][NextRun]_vars /\ WF_vars(NextRun)

\* ------------------------------------------- sync_groups on its own
\* sync_groups over an arbitrary snapshot, run to its commit.
SyncGroupsOnly ==
    /\ UNCHANGED <<steps, labvars>>
    /\ clock <= MaxSyncs
    /\ \E items \in SeqsUpTo(GroupItems, MaxFeedLen) :
       \E db_map \in DbMaps(student_groups) :
          /\ student_groups' =
                SyncGroupsResult(student_groups, db_map, KnownSpecialities, items, clock)
          /\ api_groups' = items
    /\ pre_groups' = student_groups
    /\ clock' = clock + 1
    /\ UNCHANGED <<employees, schedule_json_storage, schedule_events, committed,
                   runvars, obsvars>>

NextGroups == SyncGroupsOnly

SpecGroups == Init /\ [][NextGroups]_vars

\* ------------------------------- sync_groups with its timestamps
\* valid_from has server_default now() (models.py 71): PostgreSQL's now() is
\* the start time of the transaction, which the SELECT of logic.py 130 begins.
\* valid_to is datetime.now() read later, while the loops run (logic.py 158,
\* 168).  Both clocks are taken to agree; between the two readings up to
\* MaxDelay ticks pass.
SyncGroupsStamped ==
    /\ run <= MaxStampedSyncs
    /\ \E items \in SeqsUpTo(RunGroupItems, MaxFeedLen) :
       \E db_map \in DbMaps(student_groups) :
       \E now \in clock..(clock + MaxDelay) :
       LET transaction_timestamp == clock
           result == SyncGroupsResult(student_groups, db_map, KnownSpecialities,
                                      items, now)
       IN /\ student_groups' = result
          /\ valid_from' = valid_from \o
                 [k \in 1..(Len(result) - Len(student_groups)) |-> transaction_timestamp]
          /\ api_groups' = items
          /\ clock' = now + 1
    /\ pre_groups' = student_groups
    /\ run' = run + 1
    /\ UNCHANGED <<employees, schedule_json_storage, schedule_events, committed,
                   pc, group_names, emp_list, idx, txn, expired, exc, obsvars, steps,
                   document, auditories, clientvars, refvars, occupancy_index>>

NextVersions == SyncGroupsStamped

SpecVersions == Init /\ [][NextVersions]_vars

\* --------------------------------- one document through the normaliser
\* The texts a document may carry where a time or a date is expected; "" is a
\* missing key or a null.
StartTexts == {"09:00", "9 am", ""}
EndTexts == {"10:35", "late"}
DateTexts == {"15.01.2026", "someday"}

LessonSpace ==
    {Lesson(start, end, <<>>, subject, <<>>, <<>>) :
        start \in StartTexts, end \in EndTexts, subject \in {"Math", "Physics"}}

ExamSpace ==
    {Exam(dateLesson, start, end, "", <<>>) :
        dateLesson \in DateTexts, start \in StartTexts, end \in EndTexts \cup {""}}

\* Documents with up to MaxItems lessons under one weekday and up to MaxItems
\* exams.
DocSpace ==
    {[schedules |-> << <<"Ponedelnik", lessons>> >>, exams |-> exams, nothing |-> FALSE] :
        lessons \in SeqsUpTo(LessonSpace, MaxItems), exams \in SeqsUpTo(ExamSpace, MaxItems)}

InitDocs ==
    /\ InitMain
    /\ InitStamps
    /\ InitAuditories
    /\ InitIndex
    /\ InitClient
    /\ InitRefs
    /\ document \in DocSpace

\* _process_schedule_json(session, "g1", 'group', document) on empty tables,
\* every statement succeeding, and the COMMIT of the caller.
ProcessDocument ==
    /\ schedule_json_storage = <<>>
    /\ LET n == NumStatements("g1", "group", document, NULL)
       IN Commit(_process_schedule_json(Tables, "g1", "group", document, NULL,
                                        n + 2, clock))
    /\ UNCHANGED <<pc, run, group_names, emp_list, idx, expired, exc, clock, api_groups,
                   pre_groups, obsvars, steps, labvars>>

NextDocs == ProcessDocument

SpecDocs == InitDocs /\ [][NextDocs]_vars

\* ------------------------------------------------ the index on its own
\* schedule_events rows as the normaliser writes them: lessons of a weekday
\* and exams, seen from a group or from an employee.
EventSpace ==
    {[entity_name |-> entity_name, entity_type |-> entity_type, subject |-> "Math",
      subject_full |-> "Math", auditories |-> auds,
      day_of_week |-> IF exam THEN NULL ELSE 1,
      start_time |-> 540, end_time |-> 635,
      week_numbers |-> IF exam THEN <<>> ELSE week_numbers,
      exact_date |-> IF exam THEN 20260115 ELSE NULL] :
        entity_name \in GroupNames, entity_type \in {"group", "employee"},
        auds \in {<<>>, <<"101-1">>, <<"101-1", "7">>, <<"7", "7">>},
        week_numbers \in {<<1>>, <<1, 2>>}, exam \in BOOLEAN}

\* One row of table auditories, of which the index reads id and name.
AuditoryRow(name) == [name |-> name, department_id |-> NULL]

\* Contents of table auditories; name is not unique (models.py 78).
AuditoryTables ==
    {<<>>, <<AuditoryRow("101-1")>>, <<AuditoryRow("205-4")>>,
     <<AuditoryRow("101-1"), AuditoryRow("7")>>,
     <<AuditoryRow("7"), AuditoryRow("7")>>}

\* What the index may hold before a rebuild: nothing, or a row of an earlier
\* rebuild.
StaleIndexes ==
    {{}, {[day_of_week |-> "Sreda", week_number |-> 3, start_time |-> 540,
           end_time |-> 635, auditory_id |-> 1, groups |-> {"g9"}]}}

InitRebuild ==
    /\ InitStamps
    /\ InitDocument
    /\ InitClient
    /\ InitRefs
    /\ auditories \in AuditoryTables
    /\ occupancy_index \in StaleIndexes
    /\ \E events \in SeqsUpTo(EventSpace, MaxEvents) :
          /\ schedule_events = events
          /\ committed = [student_groups |-> <<>>, employees |-> <<>>,
                          schedule_json_storage |-> <<>>, schedule_events |-> events]
    /\ student_groups = <<>>
    /\ employees = <<>>
    /\ schedule_json_storage = <<>>
    /\ pc = "rebuild"
    /\ run = 1
    /\ clock = 1
    /\ group_names = <<>>
    /\ emp_list = <<>>
    /\ idx = 1
    /\ txn = FALSE
    /\ expired = FALSE
    /\ exc = "none"
    /\ api_groups = <<>>
    /\ pre_groups = <<>>
    /\ fetched = <<>>
    /\ attempt = NoAttempt
    /\ log = {}
    /\ rebuilds = 0
    /\ phase1_ok = TRUE
    /\ client_closed = FALSE
    /\ exit_status = "running"
    /\ steps = <<>>

\* The next run reaches rebuild_occupancy_index with the events unchanged.
RebuildAgain ==
    /\ pc = "finally"
    /\ rebuilds < MaxRebuilds
    /\ pc' = "rebuild"
    /\ log' = {}
    /\ run' = run + 1
    /\ UNCHANGED <<dbvars, group_names, emp_list, idx, txn, expired, exc, clock,
                   api_groups, pre_groups, fetched, attempt, rebuilds, phase1_ok,
                   client_closed, exit_status, steps, labvars>>

NextIndex ==
    \/ RebuildOccupancyIndex
    \/ RebuildAgain

SpecIndex == InitRebuild /\ [][NextIndex]_vars

\* ------------------------------------------------- the client on its own
NextClient ==
    \/ CallGet
    \/ SendRequest
    \/ Answer
    \/ Resume

SpecClient == Init /\ [][NextClient]_vars

\* ------------------------------- the reference syncers on one snapshot
\* Phase 1 of main() (main.py 40-47) with every table modelled, executed
\* twice: the second pass fetches the snapshot the first pass fetched.  Every
\* fetch succeeds, so a syncer raises only when a statement is refused; the
\* statements of a syncer that raised are rolled back when the session
\* closes, which leaves the tables as the syncer before it committed them.
MaxRefItems == 1      \* most items a reference endpoint's snapshot holds

\* What no reference syncer reads or writes.
refidle == <<schedule_json_storage, schedule_events, committed, run, group_names,
             emp_list, idx, txn, expired, obsvars, steps, valid_from, document,
             clientvars, occupancy_index>>

\* The snapshots an endpoint may return: any in the first pass, the recorded
\* one in the second.
Fetch(endpoint, snapshots) == IF ref_pass = 1 THEN snapshots ELSE {feeds[endpoint]}

RefTables ==
    [faculties |-> faculties, departments |-> departments,
     specialities |-> specialities, student_groups |-> student_groups,
     employees |-> employees, departments_employees |-> departments_employees,
     auditories |-> auditories]

\* How a syncer ends: session.commit() and on to the next call of main(), or
\* the exception leaves main()'s try block.
Ends(raised, next) ==
    IF raised # "none" THEN Raise(raised) ELSE pc' = next /\ exc' = exc

sync_faculties ==
    /\ pc = "sync_faculties"
    /\ \E items \in Fetch("faculties", SeqsUpTo(FacultyItems, MaxRefItems)) :
       LET r == SyncFacultyItems(faculties, items)
       IN /\ feeds' = [feeds EXCEPT !.faculties = items]
          /\ faculties' = IF r.raised # "none" THEN faculties ELSE r.faculties
          /\ Ends(r.raised, "sync_departments")
    /\ UNCHANGED <<refidle, student_groups, employees, auditories, departments,
                   specialities, departments_employees, ref_pass, after_first, clock,
                   api_groups, pre_groups>>

sync_departments ==
    /\ pc = "sync_departments"
    /\ \E items \in Fetch("departments", SeqsUpTo(DepartmentItems, MaxRefItems)) :
       LET r == SyncDepartmentItems(departments, items)
       IN /\ feeds' = [feeds EXCEPT !.departments = items]
          /\ departments' = IF r.raised # "none" THEN departments ELSE r.departments
          /\ Ends(r.raised, "sync_specialities")
    /\ UNCHANGED <<refidle, student_groups, employees, auditories, faculties,
                   specialities, departments_employees, ref_pass, after_first, clock,
                   api_groups, pre_groups>>

sync_specialities ==
    /\ pc = "sync_specialities"
    /\ \E items \in Fetch("specialities", SeqsUpTo(SpecialityItems, MaxRefItems)) :
       LET r == SyncSpecialityItems(faculties, specialities, DOMAIN faculties, items)
       IN /\ feeds' = [feeds EXCEPT !.specialities = items]
          /\ faculties' = IF r.raised # "none" THEN faculties ELSE r.faculties
          /\ specialities' = IF r.raised # "none" THEN specialities ELSE r.specialities
          /\ Ends(r.raised, "sync_groups")
    /\ UNCHANGED <<refidle, student_groups, employees, auditories, departments,
                   departments_employees, ref_pass, after_first, clock, api_groups,
                   pre_groups>>

\* sync_groups (logic.py 125-171); valid_spec_ids is read from the table
\* sync_specialities has just committed.
sync_groups ==
    /\ pc = "sync_groups"
    /\ \E items \in Fetch("student_groups", SeqsUpTo(RunGroupItems, MaxRunFeedLen)) :
       \E db_map \in DbMaps(student_groups) :
          /\ feeds' = [feeds EXCEPT !.student_groups = items]
          /\ api_groups' = items
          /\ pre_groups' = student_groups
          /\ student_groups' = SyncGroupsResult(student_groups, db_map,
                                                DOMAIN specialities, items, clock)
    /\ Ends("none", "sync_employees")
    /\ UNCHANGED <<refidle, employees, auditories, faculties, departments, specialities,
                   departments_employees, ref_pass, after_first, clock>>

sync_employees ==
    /\ pc = "sync_employees"
    /\ \E items \in Fetch("employees", SeqsUpTo(RefEmployeeItems, MaxRefItems)) :
       LET r == SyncEmployeeItems(employees, items)
       IN /\ feeds' = [feeds EXCEPT !.employees = items]
          /\ employees' = IF r.raised THEN employees ELSE r.table
          /\ departments_employees' =
                IF r.raised THEN departments_employees
                ELSE SyncEmployeeLinks(departments_employees, departments, items)
          /\ Ends(IF r.raised THEN "UniqueViolationError" ELSE "none", "sync_auditories")
    /\ UNCHANGED <<refidle, student_groups, auditories, faculties, departments,
                   specialities, ref_pass, after_first, clock, api_groups, pre_groups>>

sync_auditories ==
    /\ pc = "sync_auditories"
    /\ \E items \in Fetch("auditories", SeqsUpTo(AuditoryItems, MaxRefItems)) :
       LET r == SyncAuditoryItems(departments, auditories, DOMAIN departments, items)
       IN /\ feeds' = [feeds EXCEPT !.auditories = items]
          /\ departments' = IF r.raised # "none" THEN departments ELSE r.departments
          /\ auditories' = IF r.raised # "none" THEN auditories ELSE r.auditories
          /\ Ends(r.raised, "phase1_done")
    /\ UNCHANGED <<refidle, student_groups, employees, faculties, specialities,
                   departments_employees, ref_pass, after_first, clock, api_groups,
                   pre_groups>>

\* The job is started again, and the endpoints still return the snapshot.
RunAgain ==
    /\ pc = "phase1_done"
    /\ ref_pass = 1
    /\ ref_pass' = 2
    /\ after_first' = RefTables
    /\ clock' = clock + 1
    /\ pc' = "sync_system_state"
    /\ UNCHANGED <<refidle, exc, student_groups, employees, auditories, faculties,
                   departments, specialities, departments_employees, feeds, api_groups,
                   pre_groups>>

NextRefs ==
    \/ SyncSystemState
    \/ sync_faculties
    \/ sync_departments
    \/ sync_specialities
    \/ sync_groups
    \/ sync_employees
    \/ sync_auditories
    \/ RunAgain

SpecRefs == Init /\ [][NextRefs]_vars

\* ---------------------------- reference syncers on changing snapshots
\* sync_specialities and sync_auditories called again and again, each time
\* on whatever snapshot the endpoint returns then; ref_pass counts the calls.
MaxResyncs == 3       \* calls of a reference syncer explored in SpecRewrites

rewriteidle == <<refidle, pc, clock, api_groups, pre_groups, student_groups, employees,
                 departments_employees, after_first>>

ResyncSpecialities ==
    /\ ref_pass <= MaxResyncs
    /\ \E items \in SeqsUpTo(SpecialityItems, MaxRefItems) :
       LET r == SyncSpecialityItems(faculties, specialities, DOMAIN faculties, items)
       IN /\ feeds' = [feeds EXCEPT !.specialities = items]
          /\ faculties' = IF r.raised # "none" THEN faculties ELSE r.faculties
          /\ specialities' = IF r.raised # "none" THEN specialities ELSE r.specialities
          /\ exc' = r.raised
    /\ ref_pass' = ref_pass + 1
    /\ UNCHANGED <<rewriteidle, departments, auditories>>

ResyncAuditories ==
    /\ ref_pass <= MaxResyncs
    /\ \E items \in SeqsUpTo(AuditoryItems, MaxRefItems) :
       LET r == SyncAuditoryItems(departments, auditories, DOMAIN departments, items)
       IN /\ feeds' = [feeds EXCEPT !.auditories = items]
          /\ departments' = IF r.raised # "none" THEN departments ELSE r.departments
          /\ auditories' = IF r.raised # "none" THEN auditories ELSE r.auditories
          /\ exc' = r.raised
    /\ ref_pass' = ref_pass + 1
    /\ UNCHANGED <<rewriteidle, faculties, specialities>>

NextRewrites ==
    \/ ResyncSpecialities
    \/ ResyncAuditories

SpecRewrites == Init /\ [][NextRewrites]_vars

\* ================================================================ claims
\* What the last sync_groups did to the rows of natural id n.
ClosedBySync(n) ==
    {i \in OpenRows(pre_groups, n) : student_groups[i].valid_to # NULL}

InsertedBySync(n) ==
    {i \in (Len(pre_groups) + 1)..Len(student_groups) : student_groups[i].id = n}

\* The positions of the valid-speciality feed items of natural id n.
ValidItems(n) ==
    {k \in DOMAIN api_groups :
        /\ api_groups[k].id = n
        /\ api_groups[k].specialityDepartmentEducationFormId \in KnownSpecialities}

\* C1: after any sequence of sync_groups runs over arbitrary snapshots, every
\* natural id has at most one StudentGroup row with valid_to = null.
C1_AtMostOneOpenRowPerId ==
    \A n \in GroupIds : Cardinality(OpenRows(student_groups, n)) <= 1

\* The valid feed items of natural id n all say the same as item k: the feed
\* leaves no doubt about what "its feed item" is.
SameItems(n, k) == \A k2 \in ValidItems(n) : api_groups[k2] = api_groups[k]

\* C2: when a natural id has an open row and its valid feed item differs from
\* that row in name, course or specialty id, the run closes exactly that row,
\* inserts exactly one row of that id, open and carrying the feed values, and
\* closes and inserts no other row of that id.
C2_TrackedChangeMakesOneVersion ==
    \A n \in GroupIds : \A i \in OpenRows(pre_groups, n) : \A k \in ValidItems(n) :
        (SameItems(n, k) /\ is_changed(pre_groups[i], api_groups[k])) =>
            /\ ClosedBySync(n) = {i}
            /\ Cardinality(InsertedBySync(n)) = 1
            /\ \A j \in InsertedBySync(n) : student_groups[j] = RowOf(api_groups[k])

\* C3: when a natural id has an open row and its feed item equals that row in
\* name, course and specialty id and differs in the enrollment count, the run
\* inserts no row and closes no row of that id, and changes one field only:
\* number_of_students of that row, which becomes the feed value.
C3_CountChangeMutatesInPlace ==
    \A n \in GroupIds : \A i \in OpenRows(pre_groups, n) : \A k \in ValidItems(n) :
        (/\ SameItems(n, k)
         /\ ~is_changed(pre_groups[i], api_groups[k])
         /\ pre_groups[i].number_of_students # api_groups[k].numberOfStudents) =>
            /\ InsertedBySync(n) = {}
            /\ ClosedBySync(n) = {}
            /\ student_groups[i] =
                  [pre_groups[i] EXCEPT !.number_of_students = api_groups[k].numberOfStudents]
            /\ \A j \in DOMAIN pre_groups :
                  (j # i /\ pre_groups[j].id = n) => student_groups[j] = pre_groups[j]

\* C4: after sync_groups on any snapshot (an empty one included), every natural
\* id that had an open row and is absent from the valid feed has no open row,
\* and its formerly open row still exists, with valid_to set.
C4_MissingGroupsAreClosed ==
    \A n \in GroupIds :
        (OpenRows(pre_groups, n) # {} /\ n \notin ApiIds(api_groups, KnownSpecialities)) =>
            /\ OpenRows(student_groups, n) = {}
            /\ \A i \in OpenRows(pre_groups, n) :
                  /\ i \in DOMAIN student_groups
                  /\ student_groups[i].valid_to # NULL
                  /\ [student_groups[i] EXCEPT !.valid_to = NULL] = pre_groups[i]

\* The stored events of one (entity_name, entity_type), in table order.
EventsFor(t, entity_name, entity_type) ==
    SelectSeq(t.schedule_events,
              LAMBDA e : e.entity_name = entity_name /\ e.entity_type = entity_type)

\* The open archive rows of the entity that goes by entity_name: a group of
\* that name, or the employee whose url id it is.
OpenArchiveOf(t, entity_name, entity_type) ==
    {i \in DOMAIN t.schedule_json_storage :
        LET row == t.schedule_json_storage[i] IN
        /\ row.valid_to = NULL
        /\ row.entity_type = entity_type
        /\ IF entity_type = "group" THEN row.group_name = entity_name
           ELSE \E e \in DOMAIN t.employees :
                    t.employees[e] = entity_name /\ row.employee_id = e}

\* C5: for every (entity_name, entity_type), whatever phase-2 attempts and runs
\* came before, once a run has been through phase 2 the committed ScheduleEvent
\* rows of the pair are exactly the events derivable from the document in that
\* entity's open archive row; no event of an earlier document generation remains.
C5_EventsMirrorOpenArchive ==
    (pc = "exit" /\ rebuilds = 1) =>
    \A entity_name \in GroupNames \cup Urls : \A entity_type \in {"group", "employee"} :
        LET rows == OpenArchiveOf(committed, entity_name, entity_type)
            stored == EventsFor(committed, entity_name, entity_type)
        IN /\ rows = {} => stored = <<>>
           /\ \A i \in rows :
                 stored = EventsOf(committed.schedule_json_storage[i].data,
                                   entity_name, entity_type)

\* The open archive rows of one identifier: a group name, or an employee id.
OpenArchiveRows(archive, entity_name, entity_type, employee_id) ==
    {i \in DOMAIN archive :
        /\ archive[i].valid_to = NULL
        /\ archive[i].entity_type = entity_type
        /\ IF entity_type = "group" THEN archive[i].group_name = entity_name
                                    ELSE archive[i].employee_id = employee_id}

AtMostOneOpenArchive(archive) ==
    /\ \A name \in GroupNames :
          Cardinality(OpenArchiveRows(archive, name, "group", NULL)) <= 1
    /\ \A e \in EmployeeIds :
          Cardinality(OpenArchiveRows(archive, NoText, "employee", e)) <= 1

\* C6: after any sequence of _process_schedule_json calls, committed or rolled
\* back, every identifier and type has at most one open archive row; and a
\* call that succeeded closed the rows that were open for its identifier and
\* left exactly one open row, a new one, holding the document it fetched.
C6_OneOpenArchiveRow ==
    /\ AtMostOneOpenArchive(schedule_json_storage)
    /\ AtMostOneOpenArchive(committed.schedule_json_storage)
    /\ attempt.outcome = "processed" =>
          LET now_open == OpenArchiveRows(schedule_json_storage, attempt.entity,
                                          attempt.type, attempt.employee_id)
              was_open == OpenArchiveRows(attempt.before.schedule_json_storage,
                                          attempt.entity, attempt.type,
                                          attempt.employee_id)
          IN /\ Cardinality(now_open) = 1
             /\ \A i \in now_open :
                   /\ i > Len(attempt.before.schedule_json_storage)
                   /\ schedule_json_storage[i].data = attempt.data
             /\ \A j \in was_open : schedule_json_storage[j].valid_to # NULL
             /\ committed.schedule_json_storage = schedule_json_storage

\* C6's case: a call succeeded for an identifier that had an open row.
C6_Witness ==
    /\ attempt.outcome = "processed"
    /\ OpenArchiveRows(attempt.before.schedule_json_storage, attempt.entity,
                       attempt.type, attempt.employee_id) # {}

\* How often the run fetched the schedule of one entity.
Fetches(entity_type, entity_name) ==
    Cardinality({k \in DOMAIN fetched : fetched[k] = <<entity_type, entity_name>>})

\* C7: in every run that reaches phase 2, whatever fails, every open group
\* name and every employee with a url id has its schedule fetched exactly once
\* by the time the run ends.
C7_EveryEntityAttemptedOnce ==
    (pc = "exit" /\ phase1_ok) =>
        /\ \A i \in DOMAIN committed.student_groups :
              committed.student_groups[i].valid_to = NULL =>
                  Fetches("group", committed.student_groups[i].name) = 1
        /\ \A e \in DOMAIN committed.employees :
              Fetches("employee", committed.employees[e]) = 1

\* C8: when the attempt for one phase-2 entity fails (its fetch, a statement or
\* the commit), the archive rows, the event rows and the enrollment counts
\* committed before it are unchanged, the failing entity's own rows included.
C8_FailureLeavesCommittedWork ==
    attempt.outcome \in {"fetch_failed", "failed"} =>
        /\ Tables = attempt.before
        /\ committed = attempt.before

\* C8's case: the attempt failed for an entity that had an open archive row
\* and events, after another entity was processed in the same run.
C8_Witness ==
    /\ attempt.outcome = "failed"
    /\ Len(fetched) >= 2
    /\ OpenArchiveRows(attempt.before.schedule_json_storage, attempt.entity,
                       attempt.type, attempt.employee_id) # {}
    /\ EventsFor(attempt.before, attempt.entity, attempt.type) # <<>>
    /\ \E i \in DOMAIN schedule_json_storage :
          /\ schedule_json_storage[i].valid_to = NULL
          /\ schedule_json_storage[i].entity_type # attempt.type

\* C9: in every run in which phase 1 completes, rebuild_occupancy_index is
\* executed exactly once, and never before every phase-2 entity was attempted.
C9_RebuildOnceAfterPhase2 ==
    /\ (pc = "exit" /\ phase1_ok) => rebuilds = 1
    /\ rebuilds > 0 =>
          /\ \A k \in DOMAIN group_names : Fetches("group", group_names[k]) >= 1
          /\ \A k \in DOMAIN emp_list : Fetches("employee", emp_list[k].url_id) >= 1

\* C10: a run in which a phase-1 step raised ends with a non-zero exit status
\* and a critical log entry; a run in which phase 1 completed ends with exit
\* status zero, however many phase-2 entities failed.
C10_ExitStatusReflectsPhase1 ==
    pc = "exit" =>
        IF phase1_ok THEN exit_status = "zero"
        ELSE exit_status = "nonzero" /\ "critical" \in log

\* C11: when a phase-1 syncer raises, the run is aborted: that syncer is the
\* last phase-1 syncer called, main() is in its except or finally clause or
\* has ended, and the run made no schedule fetch and no index rebuild.
C11_PhaseOneErrorAbortsRun ==
    \A k \in DOMAIN steps :
        steps[k].outcome = "raised" =>
            /\ k = Len(steps)
            /\ pc \in {"except", "finally", "exit"}
            /\ ~phase1_ok
            /\ fetched = <<>>
            /\ rebuilds = 0

\* C11's case: a run ended after sync_departments raised.
C11_Witness ==
    /\ pc = "exit"
    /\ steps # <<>>
    /\ steps[Len(steps)] = [name |-> "sync_departments", outcome |-> "raised",
                            pending |-> FALSE]

\* The order main() calls the phase-1 syncers in (main.py 42-47).
PhaseOneOrder ==
    <<"sync_faculties", "sync_departments", "sync_specialities", "sync_groups",
      "sync_employees", "sync_auditories">>

C18_VersionsDoNotOverlap ==
    \A n \in GroupIds : \A i \in ClosedBySync(n) : \A j \in InsertedBySync(n) :
        student_groups[i].valid_to <= valid_from[j]

\* The lessons of the document whose two times parse, and its exams whose
\* date parses, in document order.
TimedLessons ==
    SelectSeq(document.schedules[1][2],
              LAMBDA l : /\ ParseTime(l.startLessonTime) # ParseFailed
                         /\ ParseTime(l.endLessonTime) # ParseFailed)

DatedExams == SelectSeq(document.exams, LAMBDA x : _parse_date(x.dateLesson) # NULL)

HasBadTime(item) ==
    \/ ParseTime(item.startLessonTime) = ParseFailed
    \/ ParseTime(item.endLessonTime) = ParseFailed

\* C14: an exam with a parseable date and a missing or unparseable time gives
\* exactly one event row, with its exact date, no weekday and start = end =
\* 00:00; a lesson with a missing or unparseable time gives no event row; and
\* every other lesson and exam of the document still gives its event row.
C14_BadTimesAreLocal ==
    schedule_json_storage # <<>> =>
        /\ Len(schedule_events) = Len(TimedLessons) + Len(DatedExams)
        /\ \A k \in DOMAIN TimedLessons :
              /\ schedule_events[k].subject = TimedLessons[k].subject
              /\ schedule_events[k].day_of_week = DAYS_MAP["Ponedelnik"]
              /\ schedule_events[k].start_time = ParseTime(TimedLessons[k].startLessonTime)
              /\ schedule_events[k].end_time = ParseTime(TimedLessons[k].endLessonTime)
              /\ schedule_events[k].exact_date = NULL
        /\ \A k \in DOMAIN DatedExams :
              LET event == schedule_events[Len(TimedLessons) + k]
                  exam == DatedExams[k]
              IN /\ event.exact_date = _parse_date(exam.dateLesson)
                 /\ event.day_of_week = NULL
                 /\ event.start_time =
                       IF HasBadTime(exam) THEN 0 ELSE ParseTime(exam.startLessonTime)
                 /\ event.end_time =
                       IF HasBadTime(exam) THEN 0 ELSE ParseTime(exam.endLessonTime)

\* C14's case: a processed document with a lesson and a dated exam whose
\* times fail to parse, next to a lesson and an exam whose times parse.
C14_Witness ==
    /\ schedule_json_storage # <<>>
    /\ \E l \in DOMAIN document.schedules[1][2] : HasBadTime(document.schedules[1][2][l])
    /\ \E x \in DOMAIN DatedExams : HasBadTime(DatedExams[x])
    /\ \E x \in DOMAIN DatedExams : ~HasBadTime(DatedExams[x])
    /\ TimedLessons # <<>>

\* The group-viewpoint lessons that occupy auditory a in week w of weekday
\* day at the given times.
Occupying(day, w, start, end, a) ==
    {k \in DOMAIN schedule_events :
        LET event == schedule_events[k] IN
        /\ event.entity_type = "group"
        /\ event.day_of_week # NULL
        /\ DayName(event.day_of_week) = day
        /\ event.start_time = start
        /\ event.end_time = end
        /\ \E i \in DOMAIN event.week_numbers : event.week_numbers[i] = w
        /\ \E i \in DOMAIN event.auditories : event.auditories[i] = auditories[a].name}

\* C13: after a successful rebuild the index holds exactly one row for every
\* (weekday, week, start, end, auditory id) that a group-viewpoint lesson
\* occupies through an auditory name matching an Auditory row, with the set of
\* the group names occupying it, and no other row, whatever it held before.
C13_IndexIsFunctionOfEvents ==
    (pc = "finally" /\ "error" \notin log) =>
        /\ \A r \in occupancy_index :
              /\ r.auditory_id \in DOMAIN auditories
              /\ r.groups # {}
              /\ r.groups =
                    {schedule_events[k].entity_name :
                        k \in Occupying(r.day_of_week, r.week_number, r.start_time,
                                        r.end_time, r.auditory_id)}
              /\ \A q \in occupancy_index :
                    [q EXCEPT !.groups = {}] = [r EXCEPT !.groups = {}] => q = r
        /\ \A k \in DOMAIN schedule_events : \A a \in DOMAIN auditories :
           \A i \in DOMAIN schedule_events[k].week_numbers :
              LET event == schedule_events[k]
                  day == IF event.day_of_week = NULL THEN NoText
                         ELSE DayName(event.day_of_week)
              IN k \in Occupying(day, event.week_numbers[i], event.start_time,
                                 event.end_time, a) =>
                    \E r \in occupancy_index :
                        /\ r.day_of_week = day
                        /\ r.week_number = event.week_numbers[i]
                        /\ r.start_time = event.start_time
                        /\ r.end_time = event.end_time
                        /\ r.auditory_id = a

\* C13's case: a second rebuild succeeded, with two groups occupying one
\* auditory and two rows in table auditories.
C13_Witness ==
    /\ pc = "finally"
    /\ "error" \notin log
    /\ rebuilds = 2
    /\ \E r \in occupancy_index : Cardinality(r.groups) = 2
    /\ Len(auditories) = 2

\* C15: a 404 answer is never followed by another attempt or a backoff wait:
\* the call raises to its caller at once; only transport errors, timeouts and
\* server-side or rate-limit statuses are followed by another attempt.
C15_ClientErrorIsNotRetried ==
    /\ last_response.outcome = "404" => last_response.then = "raised"
    /\ last_response.then = "backoff" =>
          last_response.outcome \in {"RequestError", "TimeoutException", "429", "503"}

\* C16: a call of _get sends at most 5 requests: it returns on the first
\* successful answer, retries only before its fifth attempt, and raises to its
\* caller when the fifth attempt fails.
C16_AtMostFiveAttempts ==
    /\ \A p \in Places : callers[p] > 0 => p.attempt <= 5
    /\ last_response.attempt <= 5
    /\ last_response.outcome = "200" => last_response.then = "returned"
    /\ last_response.then = "backoff" => last_response.attempt < 5
    /\ (last_response.attempt = 5 /\ last_response.outcome \notin {"200", "none"}) =>
          last_response.then = "raised"

\* C16's case: the fifth attempt of a call failed.
C16_Witness ==
    last_response = [outcome |-> "503", attempt |-> 5, then |-> "raised"]

\* The requests sent and not yet answered.
RECURSIVE Sum(_, _)
Sum(f, S) == IF S = {} THEN 0 ELSE LET x == CHOOSE y \in S : TRUE
                                   IN f[x] + Sum(f, S \ {x})

NumInFlight == Sum(callers, {p \in Places : p.at = "in_flight"})

\* C17: the requests in flight never exceed CONCURRENCY_LIMIT (5); no request
\* is sent without a free permit; and every answered request, failed or not,
\* has given its permit back.
C17_InFlightBounded ==
    /\ NumInFlight <= 5
    /\ semaphore >= 0
    /\ NumInFlight + semaphore = 5

\* C17's case: every permit is taken, a caller waits for one, and a failed
\* request has released its permit before.
C17_Witness ==
    /\ semaphore = 0
    /\ \E p \in Places : p.at = "waiting" /\ callers[p] > 0
    /\ last_response.then \in {"raised", "backoff"}

\* C20: an unknown foreign key makes no syncer fail and leaves no dangling
\* reference: sync_specialities and sync_auditories end without a
\* foreign-key error, every speciality's faculty is a row of faculties, and
\* every auditory's department is a row of departments or is null.
C20_UnknownKeysNeverFail ==
    /\ exc # "ForeignKeyViolationError"
    /\ \A sp \in DOMAIN specialities : specialities[sp].faculty_id \in DOMAIN faculties
    /\ \A a \in DOMAIN auditories :
          auditories[a].department_id \in DOMAIN departments \cup {NULL}

\* C12: when the reference syncers and sync_groups have run twice on one
\* snapshot, the second pass leaves every table as the first pass left it.
C12_SecondPassChangesNothing ==
    (ref_pass = 2 /\ pc = "phase1_done") => RefTables = after_first

\* C21: when sync_auditories has committed, every auditory whose snapshot
\* item embeds a department with an id is linked to that department.
C21_EmbeddedDepartmentIsLinked ==
    pc = "phase1_done" =>
        \A k \in DOMAIN feeds.auditories :
            LET item == feeds.auditories[k]
            IN item.department # NoDepartment =>
                   auditories[item.id].department_id = item.department.idDepartment

\* C22: when a reference syncer has committed a snapshot, every row the
\* snapshot names holds the snapshot's values: a speciality its name, faculty
\* and education form, an auditory its name and, where the item links a stored
\* department by departmentId, that department.
C22_LastWriteWins ==
    exc = "none" =>
        /\ \A k \in DOMAIN feeds.specialities :
              LET item == feeds.specialities[k]
              IN /\ specialities[item.id].name = item.name
                 /\ specialities[item.id].faculty_id = item.facultyId
                 /\ specialities[item.id].education_form = edu_form_val(item)
        /\ \A k \in DOMAIN feeds.auditories :
              LET item == feeds.auditories[k]
              IN /\ auditories[item.id].name = final_name(item)
                 /\ (item.department = NoDepartment
                       /\ item.departmentId \in DOMAIN departments) =>
                        auditories[item.id].department_id = item.departmentId

\* C23: when sync_employees raised because the snapshot holds a url id that
\* another stored employee holds, so that no phase 1 can succeed on this
\* snapshot, the committed student groups are those from before the run.
C23_PhaseOneAllOrNothing ==
    \A k \in DOMAIN steps :
        (steps[k].name = "sync_employees" /\ steps[k].outcome = "raised"
            /\ exc = "IntegrityError") =>
                committed.student_groups = pre_groups

\* C24: no step of a run takes a row out of the committed student_groups
\* table, and a committed row whose valid_to is set stays as it is.
C24_HistoryIsAppendOnly ==
    [][LET old == committed.student_groups
           new == committed'.student_groups
       IN /\ Len(new) >= Len(old)
          /\ \A i \in DOMAIN old :
                /\ new[i].id = old[i].id
                /\ old[i].valid_to # NULL => new[i] = old[i]]_vars

\* C24's case: a closed version and an open row carry the same name, and an
\* enrollment refresh for that name has set the open row's count.
C24_Witness ==
    \E i, j \in DOMAIN committed.student_groups :
        /\ committed.student_groups[i].valid_to # NULL
        /\ committed.student_groups[j].valid_to = NULL
        /\ committed.student_groups[j].name = committed.student_groups[i].name
        /\ committed.student_groups[j].number_of_students # NULL
        /\ committed.student_groups[i].number_of_students = NULL

\* The names of the groups with an open row in the committed table.
OpenNames ==
    {committed.student_groups[i].name :
        i \in {j \in DOMAIN committed.student_groups :
                  committed.student_groups[j].valid_to = NULL}}

\* C25: when a run has gone through its three phases without an error, every
\* committed group event and every group name in the occupancy index belongs
\* to a group that has an open row.
C25_EventsBelongToOpenGroups ==
    (pc = "exit" /\ phase1_ok /\ rebuilds = 1 /\ log = {}) =>
        /\ \A k \in DOMAIN committed.schedule_events :
              committed.schedule_events[k].entity_type = "group" =>
                  committed.schedule_events[k].entity_name \in OpenNames
        /\ \A row \in occupancy_index : row.groups \subseteq OpenNames

====
